---- MODULE Spec2Model ----
(***************************************************************************)
(* Live-Poll: the document store (questions, the active-question pointer,  *)
(* responses), the admin view that mutates it, the participant view        *)
(* (LivePoll) and the results view (Result), as one state machine.         *)
(*                                                                         *)
(* Conventions.                                                            *)
(*  - JavaScript null is the string Null; an absent document is Absent.    *)
(*  - Array indices are 1-based here (option i of the code is i+1).        *)
(*  - A text-field value is a sequence of one-character strings, so that   *)
(*    String.prototype.trim is computed, not assumed.                      *)
(*  - An await is a step: the handler's code up to an await, and the code  *)
(*    after it, are separate actions; a read takes the store's value at    *)
(*    the step where it resolves.                                          *)
(*  - A subscription delivers the document's current value whenever its    *)
(*    questionId differs from the one delivered last. The first delivery   *)
(*    of a null questionId, and a delivery that repeats the questionId     *)
(*    delivered last, set the state the view already has and are left out. *)
(***************************************************************************)
EXTENDS Integers, Sequences, FiniteSets, TLC

\* ------------------------------------------------------------------ bounds
\* Follow-up reads of the participant view that may be in flight at once.
MaxReads == 2
\* Submit writes of the participant view that may be in flight at once.
MaxWrites == 2
\* The clock values new Date() may return are 0..MaxTime.
MaxTime == 0
\* Pointer callbacks of the results view that may be suspended at once.
MaxResultReads == 1
\* Responses callbacks of the results view that may be suspended at once.
MaxAggregations == 1
\* Responses callbacks of the results view suspended at once in SpecOverlap.
MaxOverlap == 3
\* The percentages handed to pctLabelFor are 0..MaxPct.
MaxPct == 100

Null == "null"
Absent == "absent"

\* The ids of the question documents (generated by addDoc).
QIds == {"qA", "qB"}
\* The question the admin deletes while a participant is followed; the model
\* treats the two questions alike, so renaming them covers the other one.
Deletable == {"qB"}
\* The ratings a participant enters in this model (radio values).
RatingValues == {5}
Times == 0..MaxTime

\* ------------------------------------------------------------ text fields
Blank == " "

RECURSIVE TrimLeft(_)
TrimLeft(s) == IF s # <<>> /\ Head(s) = Blank THEN TrimLeft(Tail(s)) ELSE s

RECURSIVE TrimRight(_)
TrimRight(s) ==
  IF s # <<>> /\ s[Len(s)] = Blank THEN TrimRight(SubSeq(s, 1, Len(s) - 1)) ELSE s

Trim(s) == TrimRight(TrimLeft(s))

\* Mutant: the options are trimmed and the empty ones are kept.
CleanedOptionsKeepsEmpty(opts) == [k \in 1..Len(opts) |-> Trim(opts[k])]

\* options.map((o) => o.trim()).filter((o) => o !== '')
RECURSIVE CleanedOptions(_)
CleanedOptions(opts) ==
  IF opts = <<>> THEN <<>>
  ELSE LET o == Trim(Head(opts))
       IN IF o = <<>> THEN CleanedOptions(Tail(opts))
          ELSE <<o>> \o CleanedOptions(Tail(opts))

\* What the admin typed into the create form for the questions of the store.
TypedForm ==
  [domain |-> <<" ", "d">>, text |-> <<"t", " ">>,
   options |-> << <<"x">>, <<" ">>, <<" ", "y">>, <<>> >>]

\* The question document handleCreateAndActivate builds from the form.
QuestionPayload(form) ==
  [domain |-> Trim(form.domain), text |-> Trim(form.text),
   options |-> CleanedOptions(form.options)]

\* The question document as stored: the payload with createdAt: new Date().
CreatedQuestion(form, t) == QuestionPayload(form) @@ [createdAt |-> t]

\* The payload of handleSaveEdit: the same fields with updatedAt: new Date().
EditPayload(form, t) == QuestionPayload(form) @@ [updatedAt |-> t]

\* The validation of handleCreateAndActivate and of handleSaveEdit returns early.
Rejected(form) ==
  \/ Trim(form.domain) = <<>>
  \/ Trim(form.text) = <<>>
  \/ Len(CleanedOptions(form.options)) < 2

\* What the admin may have typed when pressing Create or Save: two complete
\* forms, a blank domain, an empty text, a single option.
AdminForms ==
  { TypedForm,
    [domain |-> <<"e">>, text |-> <<"u">>, options |-> << <<"y", " ">>, <<"z">> >>],
    [domain |-> <<" ">>, text |-> <<"t">>, options |-> << <<"x">>, <<"y">> >>],
    [domain |-> <<"d">>, text |-> <<>>, options |-> << <<"x">>, <<"y">> >>],
    [domain |-> <<"d">>, text |-> <<"t">>, options |-> << <<"x">>, <<" ">>, <<>>, <<>> >>] }

\* The edit form of a question once the admin has added a third option.
WiderForm == [domain |-> <<"d">>, text |-> <<"t">>, options |-> << <<"x">>, <<"y">>, <<"z">> >>]

\* The id addDoc gives a question created while the model runs.
NewQIds == {"qC"}

\* ------------------------------------------------------------------ state
VARIABLES
  \* The document store.
  questions,       \* questions/{id}: a function from the existing ids to documents
  active,          \* active/question: Absent, Null (questionId: null) or a question id
  responses,       \* responses/{id}: a function from the existing ids to documents
  \* The admin view.
  activeId,        \* Admin's activeId state
  adminOp,         \* the admin handler suspended at an await, or Idle
  \* The participant view (LivePoll).
  question,        \* NoQuestionLoaded or the loaded question {id, domain, text, options}
  ratings,         \* one rating per option, 0 = unselected
  submitted,
  missingIndices,  \* indices of the options marked as missing a rating
  pollSeen,        \* the questionId last delivered to LivePoll's subscription
  pollReads,       \* the active-callbacks suspended at a getDoc, oldest first
  pollWrites,      \* the handleSubmit calls suspended at their setDoc, oldest first
  \* The results view (Result).
  resultQuestion,      \* Result's question state
  optionRatingCounts,  \* for each option: [count1, ..., count5]
  totalResponses,
  resultSeen,          \* the questionId last delivered to Result's pointer subscription
  resultReads,         \* the pointer callbacks suspended at their getDoc
  responsesSeen,       \* <<snapshot>> of the collection last delivered to Result, or <<>>
  aggregations,        \* the responses callbacks suspended at a getDoc
  \* One rendered label of the results view.
  avgPct,              \* the percentage handed to pctLabelFor
  pctLabel,            \* the label it returned, "" before the call
  \* The participant's browser.
  localStorage,        \* the item 'pollClientId': Null or the stored id
  clientIdCalls,       \* the calls of getOrCreateClientId, oldest first
  clientIdRef,         \* clientId.current of the mounted poll view
  clearedAt,           \* how many calls had been made when the storage was last cleared
  \* History: the step taken last, with the state it started from.
  last

storeVars == <<questions, active, responses>>
adminVars == <<activeId, adminOp>>
pollVars == <<question, ratings, submitted, missingIndices, pollSeen, pollReads, pollWrites>>
resultVars == <<resultQuestion, optionRatingCounts, totalResponses, resultSeen,
                resultReads, responsesSeen, aggregations>>
renderVars == <<avgPct, pctLabel>>
browserVars == <<localStorage, clientIdCalls, clientIdRef, clearedAt>>
vars == <<storeVars, adminVars, pollVars, resultVars, renderVars, browserVars, last>>

Idle == [op |-> "idle"]

\* Any step the history does not describe.
Other == [op |-> "other"]

\* useState(null) for question: no question is loaded.
NoQuestionLoaded == [id |-> Null]

\* const clientId = useRef(getOrCreateClientId())
ClientId == "c1"

\* The client ids of the browsers that take part.
Clients == {"c1", "c2"}

\* The complete ratings a participant of another browser may submit.
RatingChoices == {<<1, 5>>}

\* data?.questionId || null, for a snapshot of active/question
SnapId(snap) == IF snap \in {Absent, Null} THEN Null ELSE snap

\* `${question.id}_${clientId.current}`
RespDocId(qid, cid) == qid \o "_" \o cid

\* A JavaScript number as an array element of a document field.
Num(n) == [type |-> "number", value |-> n]

\* An array element that is not a number (typeof rVal !== 'number').
NotANumber == [type |-> "string"]

\* A document field that is not an array (Array.isArray is false).
NotAnArray == [kind |-> "string"]

\* A JavaScript array of numbers as a document field.
JsArray(items) == [kind |-> "array", items |-> [i \in 1..Len(items) |-> Num(items[i])]]

\* Mutant: the payload names the collection instead of the question.
SubmitPayloadWrongQuestion(q, rs, cid, t) ==
  [questionId |-> "questions", ratings |-> JsArray(rs), clientId |-> cid, createdAt |-> t]

\* Mutant: the payload lacks createdAt.
SubmitPayloadNoCreatedAt(q, rs, cid, t) ==
  [questionId |-> q.id, ratings |-> JsArray(rs), clientId |-> cid]

\* Mutant: the payload carries another client's id.
SubmitPayloadOtherClient(q, rs, cid, t) ==
  [questionId |-> q.id, ratings |-> JsArray(rs), clientId |-> "c2", createdAt |-> t]

\* The document written by handleSubmit.
SubmitPayload(q, rs, cid, t) ==
  [questionId |-> q.id, ratings |-> JsArray(rs), clientId |-> cid, createdAt |-> t]

\* Mutant: a write to an existing id adds a document (addDoc instead of setDoc).
SetDocAdds(coll, id, data) ==
  LET new == IF id \in DOMAIN coll THEN id \o "_2" ELSE id
  IN [d \in DOMAIN coll \cup {new} |-> IF d = new THEN data ELSE coll[d]]

\* setDoc(ref, data) without merge: the document becomes exactly data.
SetDoc(coll, id, data) ==
  [d \in DOMAIN coll \cup {id} |-> IF d = id THEN data ELSE coll[d]]

\* setDoc(ref, data, { merge: true }): the fields of data replace those of the
\* document, its other fields stay.
SetDocMerge(coll, id, data) ==
  [d \in DOMAIN coll \cup {id} |->
     IF d # id THEN coll[d]
     ELSE IF id \in DOMAIN coll THEN data @@ coll[id] ELSE data]

\* deleteDoc(ref)
DeleteDoc(coll, id) == [d \in DOMAIN coll \ {id} |-> coll[d]]

RemoveAt(s, i) == SubSeq(s, 1, i - 1) \o SubSeq(s, i + 1, Len(s))

\* new Array(n).fill(0)
Zeros(n) == [i \in 1..n |-> 0]

\* The participant's state a step started from, as far as the history keeps it.
Before == [question |-> question, ratings |-> ratings, submitted |-> submitted,
           responses |-> responses, pollWrites |-> pollWrites]

\* useState of Result, before any delivery.
ResultMounted ==
  /\ resultQuestion = NoQuestionLoaded
  /\ optionRatingCounts = <<>>
  /\ totalResponses = 0
  /\ resultSeen = Null
  /\ resultReads = <<>>
  /\ responsesSeen = <<>>
  /\ aggregations = <<>>

\* useState of Admin, before any delivery; no handler runs.
AdminMounted ==
  /\ activeId = Null
  /\ adminOp = Idle

\* useState of LivePoll, before any delivery; nothing is in flight.
PollMounted ==
  /\ question = NoQuestionLoaded
  /\ ratings = <<>>
  /\ submitted = FALSE
  /\ missingIndices = <<>>
  /\ pollSeen = Null
  /\ pollReads = <<>>
  /\ pollWrites = <<>>

\* No label has been rendered.
NothingRendered ==
  /\ avgPct = 0
  /\ pctLabel = ""

\* A browser that has not opened the poll before.
BrowserFresh ==
  /\ localStorage = Null
  /\ clientIdCalls = <<>>
  /\ clientIdRef = Null
  /\ clearedAt = 0

\* The browser once the poll view has mounted with a working localStorage.
BrowserLoaded ==
  /\ localStorage = ClientId
  /\ clientIdCalls = <<[id |-> ClientId, threw |-> FALSE, mount |-> TRUE]>>
  /\ clientIdRef = ClientId
  /\ clearedAt = 0

\* The admin has created the questions of QIds and deactivated the poll; the
\* views are mounted and have received the pointer's null questionId.
Init ==
  /\ questions = [q \in QIds |-> CreatedQuestion(TypedForm, 0)]
  /\ active = Null
  /\ responses = <<>>
  /\ ResultMounted
  /\ AdminMounted
  /\ PollMounted
  /\ NothingRendered
  /\ BrowserLoaded
  /\ last = Other

\* ------------------------------------------------------- participant view
\* Mutant: setSubmitted(false) is forgotten.
NoQuestionKeepsSubmitted ==
  /\ question' = NoQuestionLoaded
  /\ ratings' = <<>>
  /\ UNCHANGED submitted

\* The state LivePoll sets when there is no question to show.
NoQuestion ==
  /\ question' = NoQuestionLoaded
  /\ ratings' = <<>>
  /\ submitted' = FALSE

\* onSnapshot(activeRef, ...) fires: the callback runs up to its first await.
PollNotify ==
  /\ SnapId(active) # pollSeen
  /\ pollSeen' = SnapId(active)
  /\ IF SnapId(active) = Null
     THEN /\ NoQuestion
          /\ last' = [op |-> "noActive", before |-> Before]
          /\ UNCHANGED <<missingIndices, pollReads>>
     ELSE /\ Len(pollReads) < MaxReads
          /\ pollReads' = Append(pollReads, [id |-> SnapId(active), pc |-> "question"])
          /\ last' = Other
          /\ UNCHANGED <<question, ratings, submitted, missingIndices>>
  /\ UNCHANGED <<renderVars, browserVars, resultVars, storeVars, adminVars, pollWrites>>

\* Mutant: a participant that finds the question missing clears the pointer.
PollQuestionReadClearsPointer(i) ==
  /\ i \in 1..Len(pollReads)
  /\ pollReads[i].pc = "question"
  /\ IF pollReads[i].id \notin DOMAIN questions
     THEN /\ NoQuestion
          /\ active' = Null
          /\ pollReads' = RemoveAt(pollReads, i)
          /\ last' = [op |-> "noActive", before |-> Before]
          /\ UNCHANGED missingIndices
     ELSE /\ question' = [id |-> pollReads[i].id] @@ questions[pollReads[i].id]
          /\ ratings' = Zeros(Len(questions[pollReads[i].id].options))
          /\ missingIndices' = <<>>
          /\ pollReads' = [pollReads EXCEPT ![i].pc = "response"]
          /\ last' = Other
          /\ UNCHANGED <<submitted, active>>
  /\ UNCHANGED <<renderVars, browserVars, resultVars, questions, responses, adminVars, pollSeen, pollWrites>>

\* await getDoc(doc(db, 'questions', id)) resolves for callback i.
PollQuestionRead(i) ==
  /\ i \in 1..Len(pollReads)
  /\ pollReads[i].pc = "question"
  /\ IF pollReads[i].id \notin DOMAIN questions
     THEN /\ NoQuestion
          /\ pollReads' = RemoveAt(pollReads, i)
          /\ last' = [op |-> "noActive", before |-> Before]
          /\ UNCHANGED missingIndices
     ELSE /\ question' = [id |-> pollReads[i].id] @@ questions[pollReads[i].id]
          /\ ratings' = Zeros(Len(questions[pollReads[i].id].options))
          /\ missingIndices' = <<>>
          /\ pollReads' = [pollReads EXCEPT ![i].pc = "response"]
          /\ last' = Other
          /\ UNCHANGED submitted
  /\ UNCHANGED <<renderVars, browserVars, resultVars, storeVars, adminVars, pollSeen, pollWrites>>

\* await getDoc(doc(db, 'responses', respDocId)) resolves for callback i.
PollResponseRead(i) ==
  /\ i \in 1..Len(pollReads)
  /\ pollReads[i].pc = "response"
  /\ submitted' = (RespDocId(pollReads[i].id, ClientId) \in DOMAIN responses)
  /\ pollReads' = RemoveAt(pollReads, i)
  /\ last' = Other
  /\ UNCHANGED <<renderVars, browserVars, resultVars, storeVars, adminVars, question, ratings, missingIndices,
                 pollSeen, pollWrites>>

\* Mutant: every missing marker is cleared, not only the one of optIndex.
SetRatingClearsAllMarkers(optIndex, ratingValue) ==
  /\ question.id # Null
  /\ ~submitted
  /\ optIndex \in 1..Len(question.options)
  /\ ratings' = [ratings EXCEPT ![optIndex] = ratingValue]
  /\ missingIndices' = <<>>
  /\ last' = [op |-> "setRating", optIndex |-> optIndex]
  /\ UNCHANGED <<renderVars, browserVars, resultVars, storeVars, adminVars, question, submitted, pollSeen, pollReads,
                 pollWrites>>

\* setRatingForOption(optIndex, ratingValue); the form is shown only for a loaded
\* question that is not submitted.
SetRatingForOption(optIndex, ratingValue) ==
  /\ question.id # Null
  /\ ~submitted
  /\ optIndex \in 1..Len(question.options)
  /\ ratings' = [ratings EXCEPT ![optIndex] = ratingValue]
  /\ missingIndices' = SelectSeq(missingIndices, LAMBDA i : i # optIndex)
  /\ last' = [op |-> "setRating", optIndex |-> optIndex]
  /\ UNCHANGED <<renderVars, browserVars, resultVars, storeVars, adminVars, question, submitted, pollSeen, pollReads,
                 pollWrites>>

\* The keys onKey handles.
Keys == {"ArrowLeft", "ArrowRight", "Home", "End"}

\* Math.max and Math.min on integers.
MathMax(a, b) == IF a >= b THEN a ELSE b
MathMin(a, b) == IF a <= b THEN a ELSE b

\* The rating onKey hands to setRatingForOption for key e.key when the option's
\* value is val (ratings[idx] || 0).
KeyRating(val, key) ==
  CASE key = "ArrowLeft" -> MathMax(1, val - 1)
    [] key = "ArrowRight" -> MathMin(5, val + 1)
    [] key = "Home" -> 1
    [] key = "End" -> 5

\* onKey(e) on the fieldset of option idx, for a key it handles.
OnKey(idx, key) ==
  /\ idx \in 1..Len(ratings)
  /\ SetRatingForOption(idx, KeyRating(ratings[idx], key))

\* ratings.map((r, i) => (r < 1 || r > 5 ? i : -1)).filter((i) => i >= 0)
RECURSIVE MissingFrom(_, _)
MissingFrom(rs, i) ==
  IF i > Len(rs) THEN <<>>
  ELSE (IF rs[i] < 1 \/ rs[i] > 5 THEN <<i>> ELSE <<>>) \o MissingFrom(rs, i + 1)

\* Mutant: only the first unrated option is reported (find instead of filter).
MissingFirstOnly(rs) ==
  IF MissingFrom(rs, 1) = <<>> THEN <<>> ELSE <<Head(MissingFrom(rs, 1))>>

Missing(rs) == MissingFrom(rs, 1)

\* handleSubmit up to its await: the guard, the validation, the start of setDoc.
HandleSubmit(t) ==
  /\ IF question.id = Null \/ submitted
     THEN /\ last' = [op |-> "submitIgnored", before |-> Before]
          /\ UNCHANGED <<missingIndices, pollWrites>>
     ELSE IF Len(ratings) = 0 \/ Len(Missing(ratings)) > 0
     THEN /\ missingIndices' = Missing(ratings)
          /\ last' = [op |-> "submitRejected", before |-> Before]
          /\ UNCHANGED pollWrites
     ELSE /\ Len(pollWrites) < MaxWrites
          /\ pollWrites' = Append(pollWrites,
                                  [id |-> RespDocId(question.id, ClientId),
                                   payload |-> SubmitPayload(question, ratings, ClientId, t)])
          /\ last' = [op |-> "submitStarted", before |-> Before,
                       retry |-> (last.op = "submitFailed")]
          /\ UNCHANGED missingIndices
  /\ UNCHANGED <<renderVars, browserVars, resultVars, storeVars, adminVars, question, ratings, submitted, pollSeen, pollReads>>

\* await setDoc(...) resolves: the document is written, then setSubmitted(true)
\* and setMissingIndices([]) run. The client's writes are applied in order.
SubmitWritten ==
  /\ pollWrites # <<>>
  /\ responses' = SetDoc(responses, Head(pollWrites).id, Head(pollWrites).payload)
  /\ submitted' = TRUE
  /\ missingIndices' = <<>>
  /\ pollWrites' = Tail(pollWrites)
  /\ last' = [op |-> "submitWritten", before |-> Before,
               retry |-> (last.op = "submitStarted" /\ last.retry)]
  /\ UNCHANGED <<renderVars, browserVars, resultVars, questions, active, adminVars, question, ratings, pollSeen, pollReads>>

\* Mutant: the catch branch takes the write for done.
SubmitFailedMarksSubmitted ==
  /\ pollWrites # <<>>
  /\ pollWrites' = Tail(pollWrites)
  /\ submitted' = TRUE
  /\ last' = [op |-> "submitFailed"]
  /\ UNCHANGED <<renderVars, browserVars, resultVars, storeVars, adminVars, question, ratings, missingIndices,
                 pollSeen, pollReads>>

\* await setDoc(...) rejects: the catch branch logs and changes nothing.
SubmitFailed ==
  /\ pollWrites # <<>>
  /\ pollWrites' = Tail(pollWrites)
  /\ last' = [op |-> "submitFailed"]
  /\ UNCHANGED <<renderVars, browserVars, resultVars, storeVars, adminVars, question, ratings, submitted, missingIndices,
                 pollSeen, pollReads>>

\* ------------------------------------------------------------- admin view
\* onSnapshot(activeRef, ...) of Admin fires.
AdminNotify ==
  /\ SnapId(active) # activeId
  /\ activeId' = SnapId(active)
  /\ last' = Other
  /\ UNCHANGED <<renderVars, browserVars, resultVars, storeVars, adminOp, pollVars>>

\* handleActivateExisting(id), for a question of the admin's list.
ActivateExisting(id) ==
  /\ id \in DOMAIN questions
  /\ active' = id
  /\ last' = Other
  /\ UNCHANGED <<renderVars, browserVars, resultVars, questions, responses, adminVars, pollVars>>

\* handleDeactivate
Deactivate ==
  /\ active' = Null
  /\ last' = Other
  /\ UNCHANGED <<renderVars, browserVars, resultVars, questions, responses, adminVars, pollVars>>

\* Mutant: the delete cascades to the responses of the question.
DeleteCascades(id) ==
  /\ adminOp = Idle
  /\ id \in DOMAIN questions
  /\ questions' = DeleteDoc(questions, id)
  /\ responses' = [d \in {e \in DOMAIN responses : responses[e].questionId # id} |-> responses[d]]
  /\ active' = IF activeId = id THEN Null ELSE active
  /\ last' = Other
  /\ UNCHANGED <<renderVars, browserVars, resultVars, adminVars, pollVars>>

\* handleDelete(id), confirmed. When Admin's activeId names the question the
\* handler first awaits setDoc(active/question, {questionId: null}); otherwise it
\* goes straight to deleteDoc.
Delete(id) ==
  /\ adminOp = Idle
  /\ id \in DOMAIN questions
  /\ IF activeId = id
     THEN /\ active' = Null
          /\ adminOp' = [op |-> "deleteDoc", id |-> id]
          /\ UNCHANGED questions
     ELSE /\ questions' = DeleteDoc(questions, id)
          /\ UNCHANGED <<active, adminOp>>
  /\ last' = Other
  /\ UNCHANGED <<renderVars, browserVars, resultVars, responses, activeId, pollVars>>

\* handleDelete after setDoc: await deleteDoc(doc(db, 'questions', id)).
DeleteQuestionDoc ==
  /\ adminOp.op = "deleteDoc"
  /\ questions' = DeleteDoc(questions, adminOp.id)
  /\ adminOp' = Idle
  /\ last' = Other
  /\ UNCHANGED <<renderVars, browserVars, resultVars, active, responses, activeId, pollVars>>

\* ------------------------------------------------------------- aggregation
\* Mutant: the filter forgets the question.
KeptAnyQuestion(resps, aid) ==
  {d \in DOMAIN resps : resps[d].ratings.kind = "array"}

\* The responses the results view keeps for the active question:
\* data.questionId === activeId && Array.isArray(data.ratings)
Kept(resps, aid) ==
  {d \in DOMAIN resps : resps[d].questionId = aid /\ resps[d].ratings.kind = "array"}

\* Mutant: tot counts every document of the snapshot.
TotAllDocuments(resps, aid) == Cardinality(DOMAIN resps)

\* tot, as the responses callback counts it
Tot(resps, aid) == Cardinality(Kept(resps, aid))

\* const rIdx = typeof rVal === 'number' ? rVal - 1 : -1
RIdx(rVal) == IF rVal.type = "number" THEN rVal.value - 1 ELSE -1

\* Mutant: a response with an entry that cannot be counted is dropped whole.
CountsOfCompleteResponses(resps, aid, optsLen) ==
  [i \in 1..optsLen |->
    [r \in 1..5 |->
      Cardinality({d \in Kept(resps, aid) :
                     /\ Len(resps[d].ratings.items) = optsLen
                     /\ \A k \in 1..optsLen : RIdx(resps[d].ratings.items[k]) \in 0..4
                     /\ RIdx(resps[d].ratings.items[i]) = r - 1})]]

\* counts, as the responses callback fills it: counts[i][rIdx] += 1 for every kept
\* response whose i-th rating gives rIdx in 0..4, with i < optsLen.
Counts(resps, aid, optsLen) ==
  [i \in 1..optsLen |->
    [r \in 1..5 |->
      Cardinality({d \in Kept(resps, aid) :
                     /\ i <= Len(resps[d].ratings.items)
                     /\ RIdx(resps[d].ratings.items[i]) = r - 1})]]

\* new Array(n).fill(0).map(() => new Array(5).fill(0))
ZeroCounts(n) == [i \in 1..n |-> [r \in 1..5 |-> 0]]

\* The store's questions and pointer a handler of Admin started from.
AdminBefore == [questions |-> questions, active |-> active]

\* handleCreateAndActivate with the form as typed, up to the end of addDoc: the
\* validation returns early, or the new question document is written.
CreateAndActivate(form, t) ==
  /\ adminOp = Idle
  /\ IF Rejected(form)
     THEN /\ last' = [op |-> "createRejected", before |-> AdminBefore, form |-> form]
          /\ UNCHANGED <<questions, adminOp>>
     ELSE \E id \in NewQIds \ DOMAIN questions :
            /\ questions' = SetDoc(questions, id, CreatedQuestion(form, t))
            /\ adminOp' = [op |-> "activate", id |-> id]
            /\ last' = [op |-> "created", before |-> AdminBefore, form |-> form]
  /\ UNCHANGED <<renderVars, browserVars, resultVars, active, responses, activeId, pollVars>>

\* handleCreateAndActivate after addDoc:
\* await setDoc(doc(db, 'active', 'question'), { questionId: docRef.id })
ActivateCreated ==
  /\ adminOp.op = "activate"
  /\ active' = adminOp.id
  /\ adminOp' = Idle
  /\ last' = [op |-> "activated", id |-> adminOp.id]
  /\ UNCHANGED <<renderVars, browserVars, resultVars, questions, responses, activeId, pollVars>>

\* handleCreateAndActivate after addDoc, when the setDoc of the pointer rejects:
\* the handler has no try/catch, the rejection ends it.
ActivateCreatedFailed ==
  /\ adminOp.op = "activate"
  /\ adminOp' = Idle
  /\ last' = [op |-> "activateFailed", id |-> adminOp.id]
  /\ UNCHANGED <<renderVars, browserVars, resultVars, storeVars, activeId, pollVars>>

\* handleSaveEdit for the listed question id (editingId) with the edit form as
\* typed: the validation returns early, or the payload is merged into the
\* question document.
SaveEdit(id, form, t) ==
  /\ adminOp = Idle
  /\ id \in DOMAIN questions
  /\ IF Rejected(form)
     THEN /\ last' = [op |-> "saveRejected", before |-> AdminBefore, form |-> form]
          /\ UNCHANGED questions
     ELSE /\ questions' = SetDocMerge(questions, id, EditPayload(form, t))
          /\ last' = [op |-> "saved", before |-> AdminBefore, form |-> form]
  /\ UNCHANGED <<renderVars, browserVars, resultVars, active, responses, adminVars, pollVars>>

\* ------------------------------------------------------- results: render
\* const RATING_LABELS
RATING_LABELS == <<"Not useful", "Slightly useful", "Useful", "Very useful", "Most useful">>

\* Mutant: the bands are exclusive at their upper bound.
PctLabelForExclusive(pct) ==
  IF pct < 20 THEN RATING_LABELS[1]
  ELSE IF pct < 40 THEN RATING_LABELS[2]
  ELSE IF pct < 60 THEN RATING_LABELS[3]
  ELSE IF pct < 80 THEN RATING_LABELS[4]
  ELSE RATING_LABELS[5]

\* pctLabelFor(pct)
PctLabelFor(pct) ==
  IF pct <= 20 THEN RATING_LABELS[1]
  ELSE IF pct <= 40 THEN RATING_LABELS[2]
  ELSE IF pct <= 60 THEN RATING_LABELS[3]
  ELSE IF pct <= 80 THEN RATING_LABELS[4]
  ELSE RATING_LABELS[5]

\* Math.round(n / d) for d > 0: the nearest integer, a half rounded up. (The
\* quotients of this model are far from the ties where a double could differ.)
MathRound(n, d) == (2 * n + d) \div (2 * d)

\* const counts = optionRatingCounts[i] || new Array(5).fill(0)
RenderCounts(i) ==
  IF i <= Len(optionRatingCounts) THEN optionRatingCounts[i] ELSE [r \in 1..5 |-> 0]

\* counts.reduce((a, b) => a + b, 0), over the first n entries
RECURSIVE Reduce(_, _)
Reduce(counts, n) == IF n = 0 THEN 0 ELSE Reduce(counts, n - 1) + counts[n]

\* Mutant: the total is the option's own count.
RenderTotalPerOption(i) == Reduce(RenderCounts(i), Len(RenderCounts(i)))

\* const total = totalResponses || counts.reduce((a, b) => a + b, 0) || 0
RenderTotal(i) ==
  IF totalResponses # 0 THEN totalResponses ELSE Reduce(RenderCounts(i), Len(RenderCounts(i)))

\* Mutant: the bucket index is weighted one too high.
RECURSIVE RenderSumOneHigh(_, _)
RenderSumOneHigh(counts, n) ==
  IF n = 0 THEN 0 ELSE RenderSumOneHigh(counts, n - 1) + counts[n] * (n + 1)

\* counts.reduce((acc, c, idx) => acc + c * (idx + 1), 0), over the first n
\* entries; entry n of the model is idx = n - 1 of the code.
RECURSIVE RenderSum(_, _)
RenderSum(counts, n) ==
  IF n = 0 THEN 0 ELSE RenderSum(counts, n - 1) + counts[n] * n

\* const avg = total ? sum / total : 0, as a fraction
RenderAvg(i) ==
  IF RenderTotal(i) # 0
  THEN [num |-> RenderSum(RenderCounts(i), Len(RenderCounts(i))), den |-> RenderTotal(i)]
  ELSE [num |-> 0, den |-> 1]

\* const avgPct = Math.round((avg / 5) * 100)
RenderAvgPct(i) == MathRound(RenderAvg(i).num * 100, RenderAvg(i).den * 5)

\* avg.toFixed(2): the hundredths nearest to avg, written with two decimals
ToFixed2(avg) ==
  LET h == MathRound(avg.num * 100, avg.den)
  IN ToString(h \div 100) \o "." \o ToString((h % 100) \div 10) \o ToString(h % 10)

\* {total ? `${avg.toFixed(2)} / 5` : 'No responses yet'}
AvgText(i) ==
  IF RenderTotal(i) # 0 THEN ToFixed2(RenderAvg(i)) \o " / 5" ELSE "No responses yet"

\* {avgPct}%
PctText(i) == ToString(RenderAvgPct(i)) \o "%"

\* The texts of option i's card below its name: the average line, the label and
\* the percentage.
CardTexts(i) == {AvgText(i), PctLabelFor(RenderAvgPct(i)), PctText(i)}

\* ------------------------------------------------------------ results view
\* onSnapshot(activeRef, ...) of Result fires: the callback runs up to its await.
ResultNotify ==
  /\ SnapId(active) # resultSeen
  /\ resultSeen' = SnapId(active)
  /\ IF SnapId(active) = Null
     THEN /\ resultQuestion' = NoQuestionLoaded
          /\ optionRatingCounts' = <<>>
          /\ totalResponses' = 0
          /\ UNCHANGED resultReads
     ELSE /\ Len(resultReads) < MaxResultReads
          /\ resultReads' = Append(resultReads, [id |-> SnapId(active)])
          /\ UNCHANGED <<resultQuestion, optionRatingCounts, totalResponses>>
  /\ UNCHANGED <<renderVars, browserVars, storeVars, adminVars, pollVars, responsesSeen, aggregations, last>>

\* await getDoc(doc(db, 'questions', id)) resolves for pointer callback i.
ResultQuestionRead(i) ==
  /\ i \in 1..Len(resultReads)
  /\ IF resultReads[i].id \in DOMAIN questions
     THEN /\ resultQuestion' = [id |-> resultReads[i].id] @@ questions[resultReads[i].id]
          /\ optionRatingCounts' = ZeroCounts(Len(questions[resultReads[i].id].options))
     ELSE /\ resultQuestion' = NoQuestionLoaded
          /\ optionRatingCounts' = <<>>
  /\ resultReads' = RemoveAt(resultReads, i)
  /\ UNCHANGED <<renderVars, browserVars, storeVars, adminVars, pollVars, totalResponses, resultSeen,
                 responsesSeen, aggregations, last>>

\* onSnapshot(collection(db, 'responses'), ...) fires with the collection as it
\* is: the callback starts its async function, which suspends at getDoc(activeRef).
ResponsesNotifyUpTo(n) ==
  /\ responsesSeen # <<responses>>
  /\ Len(aggregations) < n
  /\ responsesSeen' = <<responses>>
  /\ aggregations' = Append(aggregations, [snap |-> responses, pc |-> "active", activeId |-> Null])
  /\ UNCHANGED <<renderVars, browserVars, storeVars, adminVars, pollVars, resultQuestion, optionRatingCounts,
                 totalResponses, resultSeen, resultReads, last>>

ResponsesNotify == ResponsesNotifyUpTo(MaxAggregations)

\* await getDoc(activeRef) resolves for responses callback i.
AggregationActiveRead(i) ==
  /\ i \in 1..Len(aggregations)
  /\ aggregations[i].pc = "active"
  /\ IF SnapId(active) = Null
     THEN /\ optionRatingCounts' = <<>>
          /\ totalResponses' = 0
          /\ aggregations' = RemoveAt(aggregations, i)
     ELSE /\ aggregations' = [aggregations EXCEPT ![i].pc = "question",
                                                  ![i].activeId = SnapId(active)]
          /\ UNCHANGED <<optionRatingCounts, totalResponses>>
  /\ UNCHANGED <<renderVars, browserVars, storeVars, adminVars, pollVars, resultQuestion, resultSeen, resultReads,
                 responsesSeen, last>>

\* await getDoc(doc(db, 'questions', activeId)) resolves for responses callback i:
\* the snapshot's documents are aggregated for activeId.
AggregationQuestionRead(i) ==
  /\ i \in 1..Len(aggregations)
  /\ aggregations[i].pc = "question"
  /\ LET a == aggregations[i]
         optsLen == IF a.activeId \in DOMAIN questions
                    THEN Len(questions[a.activeId].options) ELSE 0
     IN /\ optionRatingCounts' = Counts(a.snap, a.activeId, optsLen)
        /\ totalResponses' = Tot(a.snap, a.activeId)
  /\ aggregations' = RemoveAt(aggregations, i)
  /\ UNCHANGED <<renderVars, browserVars, storeVars, adminVars, pollVars, resultQuestion, resultSeen, resultReads,
                 responsesSeen, last>>

\* Another browser's LivePoll, showing the active question, submits: handleSubmit
\* with every option rated, and its setDoc completes.
RemoteSubmit(cid, rs, t) ==
  /\ active \in DOMAIN questions
  /\ Len(rs) = Len(questions[active].options)
  /\ Missing(rs) = <<>>
  /\ responses' = SetDoc(responses, RespDocId(active, cid),
                         SubmitPayload([id |-> active], rs, cid, t))
  /\ UNCHANGED <<renderVars, browserVars, questions, active, adminVars, pollVars, resultVars, last>>

\* ------------------------------------------------------------ specification
Next ==
  \/ AdminNotify
  \/ \E id \in QIds : ActivateExisting(id)
  \/ Deactivate
  \/ \E id \in Deletable : Delete(id)
  \/ DeleteQuestionDoc
  \/ PollNotify
  \/ \E i \in 1..MaxReads : PollQuestionRead(i)
  \/ \E i \in 1..MaxReads : PollResponseRead(i)
  \/ \E optIndex \in 1..Len(ratings), ratingValue \in RatingValues :
       SetRatingForOption(optIndex, ratingValue)
  \/ \E t \in Times : HandleSubmit(t)
  \/ SubmitWritten
  \/ SubmitFailed

Spec == Init /\ [][Next]_vars

\* The results view, the admin and the participants of other browsers.
NextResult ==
  \/ AdminNotify
  \/ \E id \in QIds : ActivateExisting(id)
  \/ Deactivate
  \/ \E id \in QIds : Delete(id)
  \/ DeleteQuestionDoc
  \/ \E cid \in Clients, rs \in RatingChoices, t \in Times : RemoteSubmit(cid, rs, t)
  \/ ResultNotify
  \/ \E i \in 1..MaxResultReads : ResultQuestionRead(i)
  \/ ResponsesNotify
  \/ \E i \in 1..MaxAggregations : AggregationActiveRead(i)
  \/ \E i \in 1..MaxAggregations : AggregationQuestionRead(i)

SpecResult == Init /\ [][NextResult]_vars

\* ------------------------------------- the three views on one question
\* The question the admin activates, deactivates and deletes while a
\* participant and the results view are open. Admin's own subscription has
\* delivered nothing since the pointer was null, so handleDelete goes straight
\* to deleteDoc.
Polled == "qA"

NextViews ==
  \/ ActivateExisting(Polled)
  \/ Deactivate
  \/ Delete(Polled)
  \/ PollNotify
  \/ \E i \in 1..MaxReads : PollQuestionRead(i)
  \/ \E i \in 1..MaxReads : PollResponseRead(i)
  \/ \E optIndex \in 1..Len(ratings), ratingValue \in RatingValues :
       SetRatingForOption(optIndex, ratingValue)
  \/ \E t \in Times : HandleSubmit(t)
  \/ SubmitWritten
  \/ SubmitFailed
  \/ ResultNotify
  \/ \E i \in 1..MaxResultReads : ResultQuestionRead(i)
  \/ ResponsesNotify
  \/ \E i \in 1..MaxAggregations : AggregationActiveRead(i)
  \/ \E i \in 1..MaxAggregations : AggregationQuestionRead(i)

SpecViews == Init /\ [][NextViews]_vars

\* ----------------------------- a participant while the question is edited
\* The option whose fieldset has the keyboard focus.
KeyedOption == 1

\* The participant rates by radio button and by key and submits while the admin
\* activates the polled question and saves an edit that adds a third option.
NextEdit ==
  \/ ActivateExisting(Polled)
  \/ \E t \in Times : SaveEdit(Polled, WiderForm, t)
  \/ PollNotify
  \/ \E i \in 1..MaxReads : PollQuestionRead(i)
  \/ \E i \in 1..MaxReads : PollResponseRead(i)
  \/ \E optIndex \in 1..Len(ratings), ratingValue \in RatingValues :
       SetRatingForOption(optIndex, ratingValue)
  \/ \E key \in Keys : OnKey(KeyedOption, key)
  \/ \E t \in Times : HandleSubmit(t)
  \/ SubmitWritten

SpecEdit == Init /\ [][NextEdit]_vars

\* ------------------------------------------------------ the admin by itself
NextAdmin ==
  \/ AdminNotify
  \/ \E id \in QIds \cup NewQIds : ActivateExisting(id)
  \/ Deactivate
  \/ \E id \in QIds : Delete(id)
  \/ DeleteQuestionDoc
  \/ \E form \in AdminForms, t \in Times : CreateAndActivate(form, t)
  \/ ActivateCreated
  \/ ActivateCreatedFailed
  \/ \E id \in QIds \cup NewQIds, form \in AdminForms, t \in Times : SaveEdit(id, form, t)

SpecAdmin == Init /\ [][NextAdmin]_vars

\* ------------------------------------------------- the client identifier
\* How many calls of getOrCreateClientId a behaviour follows.
MaxCalls == 3

\* The values crypto.randomUUID() and the Math.random() fallback may give.
RandomIds == {"c1", "c2", "c3"}

\* How localStorage behaves during one call.
StorageModes == {"works", "getItemThrows", "setItemThrows"}

\* Mutant: the generated id is returned and never stored.
GetOrCreateNeverStores(item, storage, rnd, rndCatch) ==
  IF storage = "getItemThrows" THEN [id |-> rndCatch, item |-> item, threw |-> TRUE]
  ELSE IF item # Null THEN [id |-> item, item |-> item, threw |-> FALSE]
  ELSE IF storage = "setItemThrows" THEN [id |-> rndCatch, item |-> item, threw |-> TRUE]
  ELSE [id |-> rnd, item |-> item, threw |-> FALSE]

\* getOrCreateClientId() on a browser whose item 'pollClientId' is item: the
\* value returned, the item afterwards and whether the catch branch ran. rnd
\* is the id generated in the try block, rndCatch the one of the catch block.
GetOrCreateClientId(item, storage, rnd, rndCatch) ==
  IF storage = "getItemThrows" THEN [id |-> rndCatch, item |-> item, threw |-> TRUE]
  ELSE IF item # Null THEN [id |-> item, item |-> item, threw |-> FALSE]
  ELSE IF storage = "setItemThrows" THEN [id |-> rndCatch, item |-> item, threw |-> TRUE]
  ELSE [id |-> rnd, item |-> rnd, threw |-> FALSE]

\* One call of getOrCreateClientId, made by a mount of the poll view or by a
\* later render of it.
ClientIdCall(storage, rnd, rndCatch, mount) ==
  LET r == GetOrCreateClientId(localStorage, storage, rnd, rndCatch) IN
  /\ Len(clientIdCalls) < MaxCalls
  /\ localStorage' = r.item
  /\ clientIdCalls' = Append(clientIdCalls, [id |-> r.id, threw |-> r.threw, mount |-> mount])
  /\ clientIdRef' = IF mount THEN r.id ELSE clientIdRef
  /\ UNCHANGED <<clearedAt, storeVars, adminVars, pollVars, resultVars, renderVars, last>>

\* The page is loaded: useRef(getOrCreateClientId()) keeps the value returned.
MountPoll(storage, rnd, rndCatch) == ClientIdCall(storage, rnd, rndCatch, TRUE)

\* The mounted view renders again: useRef(getOrCreateClientId()) evaluates the
\* call and keeps the value of the mount.
RenderPoll(storage, rnd, rndCatch) ==
  /\ clientIdRef # Null
  /\ ClientIdCall(storage, rnd, rndCatch, FALSE)

\* The user clears the site data of the browser.
ClearStorage ==
  /\ localStorage # Null
  /\ localStorage' = Null
  /\ clearedAt' = Len(clientIdCalls)
  /\ UNCHANGED <<clientIdCalls, clientIdRef, storeVars, adminVars, pollVars, resultVars, renderVars, last>>

InitClient ==
  /\ questions = [q \in QIds |-> CreatedQuestion(TypedForm, 0)]
  /\ active = Null
  /\ responses = <<>>
  /\ ResultMounted
  /\ AdminMounted
  /\ PollMounted
  /\ NothingRendered
  /\ BrowserFresh
  /\ last = Other

NextClient ==
  \/ \E storage \in StorageModes, rnd \in RandomIds, rndCatch \in RandomIds :
       MountPoll(storage, rnd, rndCatch)
  \/ \E storage \in StorageModes, rnd \in RandomIds, rndCatch \in RandomIds :
       RenderPoll(storage, rnd, rndCatch)
  \/ ClearStorage

SpecClient == InitClient /\ [][NextClient]_vars

\* ------------------------------------------------------ one label rendered
\* Result renders a card: pctLabelFor(avgPct).
RenderLabel ==
  /\ pctLabel = ""
  /\ pctLabel' = PctLabelFor(avgPct)
  /\ UNCHANGED <<storeVars, adminVars, pollVars, resultVars, browserVars, avgPct, last>>

\* Any percentage from 0 to MaxPct is about to be rendered.
InitLabel ==
  /\ questions = [q \in QIds |-> CreatedQuestion(TypedForm, 0)]
  /\ active = Null
  /\ responses = <<>>
  /\ ResultMounted
  /\ AdminMounted
  /\ PollMounted
  /\ avgPct \in 0..MaxPct
  /\ pctLabel = ""
  /\ BrowserLoaded
  /\ last = Other

NextLabel == RenderLabel

SpecLabel == InitLabel /\ [][NextLabel]_vars

\* ------------------------------------------------ the aggregation by itself
\* The ratings fields a stored response may carry: complete ratings, a short
\* array, out-of-range numbers, a non-number entry, more entries than options,
\* and a field that is no array.
StoredRatings ==
  { JsArray(<<5, 1>>), JsArray(<<3, 3>>), JsArray(<<3>>), JsArray(<<0, 6>>),
    [kind |-> "array", items |-> <<NotANumber, Num(2)>>], JsArray(<<1, 5, 4>>),
    NotAnArray }

NoDocument == [kind |-> Absent]

\* responses/{qid}_{cid} for the pairs given a ratings field by choice.
CollectionOf(choice) ==
  LET pairs == {p \in DOMAIN choice : choice[p] # NoDocument}
      PairOf(d) == CHOOSE p \in pairs : RespDocId(p[1], p[2]) = d
  IN [d \in {RespDocId(p[1], p[2]) : p \in pairs} |->
        [questionId |-> PairOf(d)[1], ratings |-> choice[PairOf(d)],
         clientId |-> PairOf(d)[2], createdAt |-> 0]]

StoredCollections ==
  {CollectionOf(choice) : choice \in [QIds \X Clients -> StoredRatings \cup {NoDocument}]}

\* Result as its pointer callback leaves it for pointer value aid.
PointerDelivered(aid) ==
  /\ resultSeen = aid
  /\ resultReads = <<>>
  /\ totalResponses = 0
  /\ IF aid \in DOMAIN questions
     THEN /\ resultQuestion = [id |-> aid] @@ questions[aid]
          /\ optionRatingCounts = ZeroCounts(Len(questions[aid].options))
     ELSE /\ resultQuestion = NoQuestionLoaded
          /\ optionRatingCounts = <<>>

\* Any stored collection, any pointer value, the second question deleted or
\* not; Result is mounted, its pointer callback has completed and the responses
\* snapshot is still to be delivered.
InitAggregate ==
  /\ questions \in {[q \in QIds |-> CreatedQuestion(TypedForm, 0)],
                    [q \in {"qA"} |-> CreatedQuestion(TypedForm, 0)]}
  /\ active \in QIds \cup {Null}
  /\ responses \in StoredCollections
  /\ PointerDelivered(active)
  /\ responsesSeen = <<>>
  /\ aggregations = <<>>
  /\ AdminMounted
  /\ PollMounted
  /\ NothingRendered
  /\ BrowserLoaded
  /\ last = Other

\* The responses callback of Result, from its delivery to its last setState.
NextAggregate ==
  \/ ResponsesNotify
  \/ \E i \in 1..MaxAggregations : AggregationActiveRead(i)
  \/ \E i \in 1..MaxAggregations : AggregationQuestionRead(i)

SpecAggregate == InitAggregate /\ [][NextAggregate]_vars

\* ------------------------------------ responses notifications that overlap
\* The polled question is active and shown by Result, nobody has answered yet
\* and the first snapshot of the responses is still to be delivered.
InitOverlap ==
  /\ questions = [q \in QIds |-> CreatedQuestion(TypedForm, 0)]
  /\ active = Polled
  /\ responses = <<>>
  /\ PointerDelivered(active)
  /\ responsesSeen = <<>>
  /\ aggregations = <<>>
  /\ activeId = Polled
  /\ adminOp = Idle
  /\ PollMounted
  /\ NothingRendered
  /\ BrowserLoaded
  /\ last = Other

\* Participants submit while Result's responses callbacks are delivered and
\* resolve their reads in any order.
NextOverlap ==
  \/ \E cid \in Clients, rs \in RatingChoices, t \in Times : RemoteSubmit(cid, rs, t)
  \/ ResponsesNotifyUpTo(MaxOverlap)
  \/ \E i \in 1..MaxOverlap : AggregationActiveRead(i)
  \/ \E i \in 1..MaxOverlap : AggregationQuestionRead(i)

SpecOverlap == InitOverlap /\ [][NextOverlap]_vars

\* ------------------------------------------------------------------ claims
HasResponse(qid) == RespDocId(qid, ClientId) \in DOMAIN responses

Answered == question.id # Null /\ submitted

\* The document the step described by last has written, and where.
Written == Head(last.before.pollWrites)

Overwrote == last.op = "submitWritten" /\ Written.id \in DOMAIN last.before.responses

\* C1: the responses collection holds at most one document per (questionId,
\* clientId) pair, and a submission for a pair that has a document overwrites it:
\* the collection has the same document ids after the write as before.
C1_OneResponsePerPair ==
  /\ \A d1, d2 \in DOMAIN responses :
       (/\ responses[d1].questionId = responses[d2].questionId
        /\ responses[d1].clientId = responses[d2].clientId) => d1 = d2
  /\ Overwrote => DOMAIN responses = DOMAIN last.before.responses

\* A second submission of the client for a question has been written, while a
\* response for the other question is stored too.
C1_Witness == Overwrote /\ Cardinality(DOMAIN responses) = 2

SameAnswer(a, b) ==
  /\ a.questionId = b.questionId
  /\ a.clientId = b.clientId
  /\ a.ratings = b.ratings

Resubmitted ==
  /\ Overwrote
  /\ SameAnswer(last.before.responses[Written.id], Written.payload)

\* C2: when the ratings already stored for (questionId, clientId) are written
\* again, the collection has the same document ids, every document has the same
\* questionId, clientId and ratings as before (createdAt is that of the new
\* submit), and no question's aggregated total has changed.
C2_ResubmitIdempotent ==
  Resubmitted =>
    /\ DOMAIN responses = DOMAIN last.before.responses
    /\ \A d \in DOMAIN responses : SameAnswer(responses[d], last.before.responses[d])
    /\ \A q \in QIds : Tot(responses, q) = Tot(last.before.responses, q)

\* The same ratings have been written again for a question whose total is 1.
C2_Witness == Resubmitted /\ Tot(responses, Written.payload.questionId) = 1

\* C3: once no follow-up read is pending, the question shown is the one the most
\* recent ActivePointer notification named (none, if it named none or named a
\* question that does not exist).
C3_LatestNotificationWins ==
  pollReads = <<>> =>
    \/ question.id = pollSeen
    \/ question.id = Null /\ pollSeen \notin DOMAIN questions

\* The results view shows question qid with the summary of the stored responses
\* to it.
Summarised(qid, q, counts, total) ==
  /\ q.id = qid
  /\ total = Tot(responses, qid)
  /\ counts = Counts(responses, qid, Len(q.options))

\* The results view has nothing pending but the pointer's move to question qid:
\* the collection as it is has been delivered and aggregated.
OnlyPointerMovePending(qid) ==
  /\ active = qid /\ resultSeen = qid
  /\ resultReads = <<[id |-> qid]>>
  /\ aggregations = <<>>
  /\ responsesSeen = <<responses>>

\* C4: when the pointer has moved from a question A, shown with its summary, to
\* an existing question B, nothing else is pending in the results view and the
\* collection does not change, the step that settles the pointer's follow-up
\* read leaves B shown with the total and the histograms of the stored responses
\* whose questionId is B.
C4_RecomputedOnPointerChange ==
  [][\A a, b \in QIds :
       (/\ a # b /\ b \in DOMAIN questions
        /\ Summarised(a, resultQuestion, optionRatingCounts, totalResponses)
        /\ OnlyPointerMovePending(b)
        /\ resultReads' = <<>>
        /\ responses' = responses)
       => Summarised(b, resultQuestion', optionRatingCounts', totalResponses')]_vars

\* The pointer's move from A to B has settled in the results view with responses
\* stored for both questions.
C4_Witness ==
  /\ resultQuestion.id # Null /\ resultQuestion.id = active
  /\ resultReads = <<>> /\ aggregations = <<>>
  /\ resultSeen = active /\ responsesSeen = <<responses>>
  /\ \A q \in QIds : Tot(responses, q) > 0
  /\ totalResponses # Tot(responses, active)

\* A step that completes a read of a callback started for the question id the
\* most recent notification named.
CurrentReadStep ==
  \E i \in 1..Len(pollReads) :
    /\ pollReads[i].id = pollSeen
    /\ \/ pollReads' = RemoveAt(pollReads, i)
       \/ pollReads' = [pollReads EXCEPT ![i].pc = "response"]

\* C5: the session leaves Answered for a question only in a step of a new
\* ActivePointer notification: its delivery, or the completion of a read it
\* started. No other step (a rating, a Submit, the completion of a read of an
\* earlier notification) does.
C5_AnsweredTerminal ==
  [][(Answered /\ ~(Answered' /\ question'.id = question.id))
       => (pollSeen' # pollSeen \/ CurrentReadStep)]_vars

\* C6: the step that loads the question a notification named leaves the session
\* Unanswered for it: the question is shown, every rating is 0 and submitted is
\* false while the existence check of its response is still to complete.
C6_LoadedUnanswered ==
  [][\A i \in 1..Len(pollReads) :
       (pollReads[i].pc = "question"
          /\ pollReads' = [pollReads EXCEPT ![i].pc = "response"])
       => /\ question'.id = pollReads[i].id
          /\ \A k \in 1..Len(ratings') : ratings'[k] = 0
          /\ ~submitted']_vars

\* C7: with a question loaded and no read or write pending, the session is
\* Answered exactly when the store holds the client's response to that question.
C7_AnsweredIffResponse ==
  (question.id # Null /\ pollReads = <<>> /\ pollWrites = <<>>)
    => (submitted <=> HasResponse(question.id))

\* C8: after the step of a notification with a null questionId, or of a question
\* read that found no document, no question is loaded, the ratings are empty and
\* submitted is false.
C8_NoActiveQuestion ==
  last.op = "noActive" =>
    /\ question = NoQuestionLoaded
    /\ ratings = <<>>
    /\ submitted = FALSE

\* The pointer names a question whose document is gone, and the session was
\* Answered for another question when the read found that out.
C8_Witness ==
  /\ last.op = "noActive"
  /\ pollSeen # Null
  /\ last.before.question.id # Null
  /\ last.before.submitted

Unrated(rs) == {i \in 1..Len(rs) : rs[i] \notin 1..5}

\* C9: a Submit from Unanswered with an unrated option (or no ratings) is
\* rejected, and only such a Submit is; the rejected Submit starts no write,
\* leaves the store, the question, the ratings and submitted (false) as they
\* were, and sets missingIndices to exactly the unrated indices, each once.
C9_RejectedSubmit ==
  /\ last.op = "submitRejected" =>
       /\ Unrated(last.before.ratings) # {} \/ last.before.ratings = <<>>
       /\ responses = last.before.responses
       /\ pollWrites = last.before.pollWrites
       /\ question = last.before.question /\ question.id # Null
       /\ ratings = last.before.ratings
       /\ submitted = FALSE /\ last.before.submitted = FALSE
       /\ {missingIndices[k] : k \in 1..Len(missingIndices)} = Unrated(ratings)
       /\ Len(missingIndices) = Cardinality(Unrated(ratings))
  /\ last.op = "submitStarted" =>
       Unrated(last.before.ratings) = {} /\ last.before.ratings # <<>>

\* A Submit was rejected with one option rated and the other not.
C9_Witness ==
  /\ last.op = "submitRejected"
  /\ Cardinality(Unrated(ratings)) = 1
  /\ Len(ratings) = 2

ResponseFields == {"questionId", "ratings", "clientId", "createdAt"}

\* C10: a Submit is ignored exactly when no question is loaded or the session is
\* Answered, and then starts no write; a Submit that starts a write does so for
\* responses/{question.id}_{clientId} with the question's id, the current ratings
\* (each in 1..5) and the client id; when the write completes the document is
\* exactly that payload, with the four fields and no other, and submitted is true.
C10_AcceptedSubmit ==
  /\ last.op = "submitIgnored" =>
       /\ last.before.question.id = Null \/ last.before.submitted
       /\ pollWrites = last.before.pollWrites
       /\ responses = last.before.responses
  /\ last.op \in {"submitStarted", "submitRejected"} =>
       last.before.question.id # Null /\ ~last.before.submitted
  /\ last.op = "submitStarted" =>
       /\ Len(pollWrites) = Len(last.before.pollWrites) + 1
       /\ LET w == pollWrites[Len(pollWrites)]
          IN /\ w.id = last.before.question.id \o "_" \o "c1"
             /\ DOMAIN w.payload = ResponseFields
             /\ w.payload.questionId = last.before.question.id
             /\ w.payload.ratings.kind = "array"
             /\ Len(w.payload.ratings.items) = Len(last.before.ratings)
             /\ \A k \in 1..Len(last.before.ratings) :
                  w.payload.ratings.items[k] = [type |-> "number", value |-> last.before.ratings[k]]
             /\ \A k \in 1..Len(last.before.ratings) : last.before.ratings[k] \in 1..5
             /\ w.payload.clientId = "c1"
             /\ w.payload.createdAt \in Times
       /\ responses = last.before.responses
  /\ last.op = "submitWritten" =>
       /\ responses[Written.id] = Written.payload
       /\ DOMAIN responses[Written.id] = ResponseFields
       /\ \A d \in DOMAIN last.before.responses \ {Written.id} :
            d \in DOMAIN responses /\ responses[d] = last.before.responses[d]
       /\ DOMAIN responses = DOMAIN last.before.responses \cup {Written.id}
       /\ submitted

\* A Submit's write has completed for the question on display, from Unanswered.
C10_Witness ==
  /\ last.op = "submitWritten"
  /\ ~last.before.submitted
  /\ question.id = Written.payload.questionId
  /\ Written.id \notin DOMAIN last.before.responses

\* A Submit could be started: a question is loaded, the session is not submitted
\* and every option is rated.
Submittable(q, rs, sub) ==
  /\ q.id # Null /\ ~sub
  /\ rs # <<>> /\ \A k \in 1..Len(rs) : rs[k] \in 1..5

\* C11: the step in which a Submit's write fails leaves the question, the ratings,
\* submitted and every stored response as they were, so a session that was
\* Unanswered stays Unanswered; and a Submit pressed next in a session that is
\* still submittable is accepted (its write is started, it is neither ignored nor
\* rejected).
C11_FailedSubmit ==
  /\ [][last'.op = "submitFailed" =>
          /\ question' = question
          /\ ratings' = ratings
          /\ submitted' = submitted
          /\ responses' = responses
          /\ Len(pollWrites') = Len(pollWrites) - 1]_vars
  /\ [][(/\ last.op = "submitFailed"
          /\ Submittable(question, ratings, submitted)
          /\ last'.op \in {"submitIgnored", "submitRejected", "submitStarted"})
         => (last'.op = "submitStarted" /\ pollWrites' # pollWrites)]_vars

\* A write failed in an Unanswered session; the Submit pressed next wrote the
\* response, which was not stored before, and the session is Answered.
C11_Witness ==
  /\ last.op = "submitWritten" /\ last.retry
  /\ Written.id \notin DOMAIN last.before.responses
  /\ ~last.before.submitted
  /\ submitted /\ question.id = Written.payload.questionId

\* The responses callback has run to its end on the collection as it is stored.
Aggregated == responsesSeen = <<responses>> /\ aggregations = <<>>

\* The responses that name question qid and carry an array of ratings.
KeptDocs(qid) ==
  {d \in DOMAIN responses :
     responses[d].questionId = qid /\ responses[d].ratings.kind = "array"}

\* Response d rates option i with the number r.
RatedAs(d, i, r) ==
  /\ i <= Len(responses[d].ratings.items)
  /\ responses[d].ratings.items[i] = [type |-> "number", value |-> r]

\* C12: after the aggregation for a pointer that names a question, the total is
\* the number of responses that name that question and carry an array, and no
\* histogram bucket holds more than the kept responses that rate that option so:
\* responses to another question (of a deleted one too) and responses without an
\* array add to neither.
C12_TotalCountsKept ==
  (Aggregated /\ active # Null) =>
    /\ totalResponses = Cardinality(KeptDocs(active))
    /\ \A i \in 1..Len(optionRatingCounts), r \in 1..5 :
         optionRatingCounts[i][r] <= Cardinality({d \in KeptDocs(active) : RatedAs(d, i, r)})

\* The aggregation ran for qA with a kept response, a response of qA without an
\* array and a response to the deleted qB in the store.
C12_Witness ==
  /\ Aggregated /\ active = "qA" /\ "qB" \notin DOMAIN questions
  /\ totalResponses = 1
  /\ \E d \in DOMAIN responses :
       responses[d].questionId = "qA" /\ responses[d].ratings.kind # "array"
  /\ \E d \in DOMAIN responses :
       responses[d].questionId = "qB" /\ responses[d].ratings.kind = "array"

\* The option count the aggregation works with (0 when the question is gone).
OptionCount(qid) == IF qid \in DOMAIN questions THEN Len(questions[qid].options) ELSE 0

\* C13: after the aggregation for a pointer that names a question with N options
\* there are N histograms of five buckets; bucket r of option i holds exactly the
\* number of kept responses whose i-th rating is the number r in 1..5 (a missing
\* entry, a non-number, a number out of range or an entry beyond N adds nothing,
\* and does not keep the response's other entries out); the total counts every
\* kept response once.
C13_CountsPerEntry ==
  (Aggregated /\ active # Null) =>
    /\ Len(optionRatingCounts) = OptionCount(active)
    /\ \A i \in 1..OptionCount(active) :
         /\ DOMAIN optionRatingCounts[i] = 1..5
         /\ \A r \in 1..5 :
              optionRatingCounts[i][r] =
                Cardinality({d \in KeptDocs(active) : RatedAs(d, i, r)})
    /\ totalResponses = Cardinality(KeptDocs(active))

\* The only stored response is ratings = [3], to the active 2-option question:
\* option 0 has bucket 2 at 1, option 1 has nothing, the total is 1.
C13_Witness ==
  /\ Aggregated /\ active = "qA" /\ OptionCount("qA") = 2
  /\ DOMAIN responses = {"qA_c1"}
  /\ responses["qA_c1"].ratings = [kind |-> "array", items |-> <<[type |-> "number", value |-> 3]>>]
  /\ optionRatingCounts = <<(<<0, 0, 1, 0, 0>>), (<<0, 0, 0, 0, 0>>)>>
  /\ totalResponses = 1

\* The options the results view renders a card for.
RenderedOptions ==
  IF resultQuestion.id = Null THEN {} ELSE 1..Len(resultQuestion.options)

\* C14: in every state of the results view, also when the histograms were set by
\* the pointer callback and the total by the responses callback, each rendered
\* option has an average from 0 to 5 and a percentage that is an integer from 0
\* to 100 and the nearest integer to avg / 5 * 100.
C14_AverageAndPercentInRange ==
  \A i \in RenderedOptions :
    LET avg == RenderAvg(i)
        pct == RenderAvgPct(i)
    IN /\ avg.den > 0 /\ 0 <= avg.num /\ avg.num <= 5 * avg.den
       /\ pct \in 0..100
       /\ (2 * pct - 1) * avg.den <= 40 * avg.num
       /\ 40 * avg.num < (2 * pct + 1) * avg.den

\* A question with stored responses is shown with the zeroed histograms of the
\* pointer callback and the total of an earlier responses callback.
C14_Witness ==
  /\ resultQuestion.id # Null
  /\ resultReads = <<>> /\ aggregations = <<>>
  /\ optionRatingCounts = ZeroCounts(Len(resultQuestion.options))
  /\ totalResponses = 2
  /\ Tot(responses, resultQuestion.id) > 0

\* The ratings arrays of the kept responses to question qid, as number lists.
KeptRatings(qid) == {responses[d].ratings.items : d \in KeptDocs(qid)}

\* The kept responses to the question shown are [5,1] and [3,3].
ExampleOne ==
  /\ Cardinality(KeptDocs(active)) = 2
  /\ KeptRatings(active) =
       { <<[type |-> "number", value |-> 5], [type |-> "number", value |-> 1]>>,
         <<[type |-> "number", value |-> 3], [type |-> "number", value |-> 3]>> }

\* C15: after the aggregation for the question shown, each option's total is the
\* number of kept responses and its average is sum_i / total when that is
\* positive and 0 otherwise, sum_i being counts[i][bucket] * (bucket + 1) summed
\* over the five buckets; for the responses [5,1] and [3,3] option 0 has sum 8,
\* total 2, average 4, percentage 80 and the label "Very useful".
C15_AverageOverKept ==
  (Aggregated /\ resultQuestion.id # Null /\ resultQuestion.id = active) =>
    \A i \in RenderedOptions :
      LET c == optionRatingCounts[i]
          sum == c[1] * 1 + c[2] * 2 + c[3] * 3 + c[4] * 4 + c[5] * 5
          n == Cardinality(KeptDocs(active))
      IN /\ RenderTotal(i) = n
         /\ RenderAvg(i) = IF n > 0 THEN [num |-> sum, den |-> n] ELSE [num |-> 0, den |-> 1]
         /\ (ExampleOne /\ i = 1) =>
              /\ sum = 8 /\ n = 2
              /\ RenderAvg(i).num = 4 * RenderAvg(i).den
              /\ RenderAvgPct(i) = 80
              /\ PctLabelFor(RenderAvgPct(i)) = "Very useful"

\* The aggregation of [5,1] and [3,3] is shown.
C15_Witness ==
  /\ Aggregated /\ resultQuestion.id # Null /\ resultQuestion.id = active
  /\ ExampleOne
  /\ totalResponses = 2
  /\ RenderAvgPct(1) = 80

\* C16: the label of a percentage p is "Not useful" for p <= 20, "Slightly
\* useful" for 21..40, "Useful" for 41..60, "Very useful" for 61..80 and "Most
\* useful" from 81 on; so 0 and 20 give "Not useful", 21 "Slightly useful", 80
\* "Very useful" and 81 "Most useful".
C16_LabelBands ==
  pctLabel # "" =>
    /\ avgPct <= 20 => pctLabel = "Not useful"
    /\ avgPct \in 21..40 => pctLabel = "Slightly useful"
    /\ avgPct \in 41..60 => pctLabel = "Useful"
    /\ avgPct \in 61..80 => pctLabel = "Very useful"
    /\ avgPct >= 81 => pctLabel = "Most useful"
    /\ avgPct \in {0, 20} => pctLabel = "Not useful"
    /\ avgPct = 21 => pctLabel = "Slightly useful"
    /\ avgPct = 80 => pctLabel = "Very useful"
    /\ avgPct = 81 => pctLabel = "Most useful"

\* The label of 80 has been rendered.
C16_Witness == avgPct = 80 /\ pctLabel = "Very useful"

\* Response d has exactly n ratings, each a number in 1..5.
WellFormed(d, n) ==
  /\ Len(responses[d].ratings.items) = n
  /\ \A k \in 1..n : \E r \in 1..5 : RatedAs(d, k, r)

\* C17: after the aggregation for an existing question with N options, when
\* every kept response has exactly N ratings, all in 1..5, the five buckets of
\* every option add up to the total.
C17_BucketsAddUpToTotal ==
  (/\ Aggregated /\ active \in DOMAIN questions
   /\ \A d \in KeptDocs(active) : WellFormed(d, OptionCount(active)))
  => \A i \in 1..OptionCount(active) :
       LET c == optionRatingCounts[i]
       IN c[1] + c[2] + c[3] + c[4] + c[5] = totalResponses

\* Two well-formed responses to the active question have been aggregated, next
\* to a response to the other question.
C17_Witness ==
  /\ Aggregated /\ active \in DOMAIN questions
  /\ \A d \in KeptDocs(active) : WellFormed(d, OptionCount(active))
  /\ totalResponses = 2
  /\ Cardinality(DOMAIN responses) = 3

\* C18: after the aggregation for the question shown, when no response is kept,
\* the total is 0 and every option's card has average 0, percentage 0 and the
\* text "No responses yet", and does not have the text "0%".
C18_NoResponsesYet ==
  (/\ Aggregated /\ resultQuestion.id # Null /\ resultQuestion.id = active
   /\ KeptDocs(active) = {})
  => /\ totalResponses = 0
     /\ \A i \in RenderedOptions :
          /\ RenderAvg(i).num = 0
          /\ RenderAvgPct(i) = 0
          /\ "No responses yet" \in CardTexts(i)
          /\ "0%" \notin CardTexts(i)

\* Text s has a character that is not a blank.
HasText(s) == \E k \in 1..Len(s) : s[k] # " "

\* Text s is not empty and neither starts nor ends with a blank.
TrimmedText(s) == s # <<>> /\ s[1] # " " /\ s[Len(s)] # " "

\* The form has a domain, a text and at least two options with text.
Complete(form) ==
  /\ HasText(form.domain) /\ HasText(form.text)
  /\ Cardinality({k \in 1..Len(form.options) : HasText(form.options[k])}) >= 2

\* C19: every stored question has a domain and a text that are trimmed and not
\* blank and at least two options, each trimmed and not blank; create-and-
\* activate and save-edit write exactly when the form is complete, and a
\* rejected one leaves every question document and the pointer as they were.
C19_ValidatedQuestions ==
  /\ \A q \in DOMAIN questions :
       /\ TrimmedText(questions[q].domain) /\ TrimmedText(questions[q].text)
       /\ Len(questions[q].options) >= 2
       /\ \A k \in 1..Len(questions[q].options) : TrimmedText(questions[q].options[k])
  /\ last.op \in {"createRejected", "saveRejected"} =>
       /\ ~Complete(last.form)
       /\ questions = last.before.questions
       /\ active = last.before.active
  /\ last.op \in {"created", "saved"} => Complete(last.form)

\* A save-edit with a single option was rejected while a question was active.
C19_Witness ==
  /\ last.op = "saveRejected"
  /\ HasText(last.form.domain) /\ HasText(last.form.text)
  /\ active \in DOMAIN questions

\* The calls of getOrCreateClientId made since the storage was last cleared
\* during which no access to localStorage threw.
StoredCalls == {i \in DOMAIN clientIdCalls : i > clearedAt /\ ~clientIdCalls[i].threw}

\* C20 as written: every call of getOrCreateClientId on the browser returns
\* the same value.
C20_SameIdEveryCall ==
  \A i, j \in DOMAIN clientIdCalls : clientIdCalls[i].id = clientIdCalls[j].id

\* C20: while localStorage can be read and written and has not been cleared,
\* every call of getOrCreateClientId returns the same value, the stored item,
\* so the mounts of the poll view use the same clientId and, for a given
\* question, the same Response document id.
C20_SameIdWhileStored ==
  /\ \A i, j \in StoredCalls : clientIdCalls[i].id = clientIdCalls[j].id
  /\ \A i \in StoredCalls : clientIdCalls[i].id = localStorage
  /\ \A i, j \in StoredCalls, q \in QIds :
       clientIdCalls[i].mount /\ clientIdCalls[j].mount =>
         RespDocId(q, clientIdCalls[i].id) = RespDocId(q, clientIdCalls[j].id)
  /\ (clientIdCalls # <<>> /\ Len(clientIdCalls) \in StoredCalls
        /\ clientIdCalls[Len(clientIdCalls)].mount) => clientIdRef = localStorage

\* The page was loaded twice with a working localStorage and no clearing between.
C20_Witness ==
  \E i, j \in StoredCalls :
    i < j /\ clientIdCalls[i].mount /\ clientIdCalls[j].mount /\ clientIdRef = localStorage

\* The option indices marked as missing.
MissingSet == {missingIndices[k] : k \in DOMAIN missingIndices}

\* C21: a setRatingForOption(i, r) while Unanswered changes entry i of the
\* ratings and no other, leaves the question and the submitted flag as they
\* were, and removes i and nothing else from the missing indices.
C21_SetRatingFrame ==
  [][last'.op = "setRating" =>
       LET i == last'.optIndex IN
       /\ question.id # Null /\ ~submitted
       /\ Len(ratings') = Len(ratings)
       /\ \A k \in 1..Len(ratings) : k # i => ratings'[k] = ratings[k]
       /\ ratings'[i] \in RatingValues
       /\ question' = question
       /\ submitted' = submitted
       /\ {missingIndices'[k] : k \in DOMAIN missingIndices'} = MissingSet \ {i}]_vars

\* After a submit was rejected for both options, option 1 was rated: its marker
\* is gone and the one of option 2 stays.
C21_Witness ==
  /\ last.op = "setRating" /\ last.optIndex = 1
  /\ ratings[1] \in RatingValues /\ ratings[2] = 0
  /\ missingIndices = <<2>>

ParticipantOps == {"noActive", "setRating", "submitIgnored", "submitRejected",
                   "submitStarted", "submitWritten", "submitFailed"}

\* C23: a step of the participant view (notification, read, rating, submit)
\* or of the results view (notification, read, aggregation) leaves every
\* Question document and the pointer as they were, and a step that changes
\* the responses changes the one document whose id is its questionId, an
\* underscore and its clientId, the submitting client.
C23_OnlyAdminWritesQuestions ==
  [][/\ (pollVars' # pollVars \/ resultVars' # resultVars \/ responses' # responses
          \/ last'.op \in ParticipantOps) =>
          questions' = questions /\ active' = active
     /\ (questions' # questions \/ active' # active) =>
          pollVars' = pollVars /\ resultVars' = resultVars /\ responses' = responses
     /\ responses' # responses =>
          \E d \in DOMAIN responses' :
            /\ d = RespDocId(responses'[d].questionId, responses'[d].clientId)
            /\ responses'[d].clientId = ClientId
            /\ DOMAIN responses' = DOMAIN responses \cup {d}
            /\ \A e \in DOMAIN responses : e # d => responses'[e] = responses[e]]_vars

\* The participant's submit was written and the results view has counted it,
\* while the question and the pointer are what the admin made them.
C23_Witness ==
  /\ RespDocId(Polled, ClientId) \in DOMAIN responses
  /\ submitted
  /\ totalResponses = 1
  /\ active = Polled /\ Polled \in DOMAIN questions

\* C24: the id of every stored Response document, and of every write on its
\* way, is its questionId field, an underscore and its clientId field; the
\* questionId of a write is the id of the question shown when handleSubmit
\* started it, and the write stores it unchanged.
C24_ResponseIdFromFields ==
  /\ \A d \in DOMAIN responses :
       d = responses[d].questionId \o "_" \o responses[d].clientId
  /\ \A k \in 1..Len(pollWrites) :
       pollWrites[k].id = pollWrites[k].payload.questionId \o "_" \o pollWrites[k].payload.clientId
  /\ last.op = "submitStarted" =>
       pollWrites[Len(pollWrites)].payload.questionId = last.before.question.id
  /\ last.op = "submitWritten" =>
       /\ Head(last.before.pollWrites).id \in DOMAIN responses
       /\ responses[Head(last.before.pollWrites).id].questionId =
            Head(last.before.pollWrites).payload.questionId

\* A write completed after the view had moved to the other question: the
\* stored document names the question shown when the submit was started.
C24_Witness ==
  /\ last.op = "submitWritten"
  /\ question.id # Null
  /\ question.id # Head(last.before.pollWrites).payload.questionId
  /\ Cardinality(DOMAIN responses) = 2

\* C25: whenever the session is Answered for the question on display and no
\* read or write is pending, the store holds the client's response to that
\* question, also when a write for another question completed after the
\* question on display was loaded.
C25_AnsweredHasResponse ==
  (Answered /\ pollReads = <<>> /\ pollWrites = <<>>) => HasResponse(question.id)

\* The write of a submit for one question completed while the other question,
\* named by the pointer and by the latest notification, was on display with
\* its reads done: the session is Answered for a question the client has no
\* response to.
C25_Witness ==
  /\ last.op = "submitWritten"
  /\ question.id # Null
  /\ question.id = active /\ question.id = pollSeen
  /\ Written.payload.questionId # question.id
  /\ ~last.before.submitted /\ submitted
  /\ pollReads = <<>> /\ pollWrites = <<>>
  /\ ~HasResponse(question.id)

\* C26: once every responses callback has resolved its reads, the histograms
\* and the total on display are those of the snapshot delivered last, in
\* whichever order the reads of overlapping callbacks resolved.
C26_LaterSnapshotWins ==
  (aggregations = <<>> /\ responsesSeen # <<>>) =>
    /\ totalResponses = Tot(responsesSeen[1], active)
    /\ optionRatingCounts =
         Counts(responsesSeen[1], active, Len(questions[active].options))

\* Two callbacks overlapped and the one delivered first resolved last: with
\* nothing pending the total on display is below that of the latest snapshot,
\* which is the collection as stored.
C26_Witness ==
  /\ aggregations = <<>>
  /\ responsesSeen = <<responses>>
  /\ totalResponses < Tot(responses, active)

\* C27: after any sequence of admin operations the pointer is null or names
\* a Question document that exists.
C27_PointerNullOrExisting == active = Null \/ active \in DOMAIN questions

\* The admin activated a question and deleted it before the subscription of
\* the admin view had delivered the activation: the handler is done, the view
\* has caught up, and the pointer names a question that is gone.
C27_Witness ==
  /\ active # Null /\ active \notin DOMAIN questions
  /\ adminOp = Idle
  /\ activeId = active

\* C28: whenever Result shows no active question and none of its reads is
\* pending, the total on display is 0 and the histograms are empty.
C28_NoQuestionNoTotals ==
  (resultQuestion = NoQuestionLoaded /\ resultReads = <<>> /\ aggregations = <<>>) =>
    totalResponses = 0 /\ optionRatingCounts = <<>>

\* The pointer is null, Result has been told so and shows no active question,
\* nothing is pending, and the header shows a total above 0.
C28_Witness ==
  /\ active = Null /\ resultSeen = Null
  /\ resultQuestion = NoQuestionLoaded
  /\ resultReads = <<>> /\ aggregations = <<>>
  /\ totalResponses > 0

\* C29: the document a submit has written has ratings that are all numbers in
\* 1..5, as many as the question stored under its questionId has options,
\* however the ratings were entered and also when the admin has edited the
\* options of the question while the participant had it open.
C29_WrittenRatingsFitQuestion ==
  last.op = "submitWritten" =>
    LET w == Written.payload IN
    /\ w.ratings.kind = "array"
    /\ \A k \in 1..Len(w.ratings.items) :
         w.ratings.items[k].type = "number" /\ w.ratings.items[k].value \in 1..5
    /\ w.questionId \in DOMAIN questions =>
         Len(w.ratings.items) = Len(questions[w.questionId].options)

\* A submit wrote two ratings, entered with the keys, for a question that has
\* three options since the admin's edit.
C29_Witness ==
  /\ last.op = "submitWritten"
  /\ Written.payload.questionId = Polled
  /\ Len(Written.payload.ratings.items) = 2
  /\ Written.payload.ratings.items[1].value = 1
  /\ Len(questions[Polled].options) = 3

\* C30: when a create-and-activate that passed its validation has ended, the
\* pointer names the question it created, or that question is not stored.
C30_CreateAndActivateAtomic ==
  last.op \in {"activated", "activateFailed"} =>
    active = last.id \/ last.id \notin DOMAIN questions

\* The handler ended at the rejected write of the pointer: the new question is
\* stored and the pointer names no question or another one.
C30_Witness ==
  /\ last.op = "activateFailed"
  /\ adminOp = Idle
  /\ last.id \in DOMAIN questions
  /\ active # last.id

====
